---------------------------- MODULE Spec2Model ----------------------------
(***************************************************************************)
(* Node availability report (final.py): two spreadsheets are cleaned and   *)
(* merged once, when the module is loaded; afterwards every "Apply         *)
(* Filters" click runs update_table over the merged table.                 *)
(*                                                                         *)
(* Representation.  A data frame is a sequence of records (its rows, in    *)
(* order).  A timestamp is a number of ticks, TicksPerDay ticks to a       *)
(* calendar day; NaT is the missing timestamp.  A missing text cell is     *)
(* NaN, a missing number is NaNum.  A spreadsheet cell that pandas has to  *)
(* coerce is a record [kind, v]: kind says what the cell holds, v is the   *)
(* value it parses to when it parses.  The 'Event' column and the metric   *)
(* table's 'Node Alias' column are carried by no operation below and are   *)
(* left out of the rows.                                                   *)
(***************************************************************************)
EXTENDS Integers, Sequences, FiniteSets, TLC

\* ------------------------------------------------------------- bounds
MaxAlarms  == 2     \* data rows of the alarm sheet (serving runs)
MaxMetrics == 6     \* data rows of the metric sheet (serving runs)
MaxRawRows == 2     \* data rows of the alarm sheet (load runs)
MaxDay     == 1     \* calendar days 0..MaxDay
MaxClicks  == 2     \* clicks of a session with several clicks

\* ------------------------------------------------------ value domains
TicksPerDay == 2
MaxTime     == (MaxDay + 1) * TicksPerDay - 1
Times       == 0 .. MaxTime
Days        == 0 .. MaxDay

NaT   == -1
NaNum == -1
NaN   == "NaN"

\* Node aliases in the order groupby sorts them.
AliasOrder == <<"A", "B">>
Nodes      == {AliasOrder[i] : i \in DOMAIN AliasOrder}

\* Spreadsheet cells.
Cell(k, x)   == [kind |-> k, v |-> x]
BlankCell    == Cell("nan", 0)
JunkCell     == Cell("junk", 0)

\* Values the date picker and the dropdown can hand to the callback.
NoDate       == Cell("none", 0)        \* None
EmptyDate    == Cell("empty", 0)       \* ''
JunkDate     == Cell("junk", 0)        \* a string that is no date
DateStr(d)   == Cell("date", d)        \* 'YYYY-MM-DD'
StampStr(t)  == Cell("datetime", t)    \* 'YYYY-MM-DD hh:mm:ss', past midnight
DateInputs   == {NoDate, EmptyDate, JunkDate}
                  \cup {DateStr(d) : d \in Days}
                  \cup {StampStr(t) : t \in {u \in Times : u % TicksPerDay # 0}}

NoCriteria   == "<None>"
Buckets      == {"1-3", "4-5", ">5", ">10"}
CriteriaInputs == Buckets \cup {"<=3", NoCriteria}

VARIABLES
    pc,              \* position of the module's top-level code
    file1, file2,    \* the two spreadsheets, as grids of rows
    df1_cleaned, df2_cleaned,
    merged_df,
    downtime_count,  \* module level: alias -> number of distinct alarm times
    min_date, max_date,
    start_date, end_date, dropdown,   \* values the layout preselects
    n_clicks,        \* the button's click count
    clicks_planned,  \* clicks the user makes in this session
    args,            \* arguments of the latest update_table call
    filtered_df,     \* update_table: the frame after the date filter
    local_count,     \* update_table: its local downtime_count
    returned,        \* what the latest call returned (<<>> when it raised)
    error            \* exception that left the latest call, "" if none

vars == <<pc, file1, file2, df1_cleaned, df2_cleaned, merged_df, downtime_count,
          min_date, max_date, start_date, end_date, dropdown,
          n_clicks, clicks_planned, args, filtered_df, local_count, returned, error>>

\* --------------------------------------------------------- data frames
RECURSIVE SeqSum(_)
SeqSum(s) == IF s = <<>> THEN 0 ELSE Head(s) + SeqSum(Tail(s))

RECURSIVE Flatten(_)
Flatten(ss) == IF ss = <<>> THEN <<>> ELSE Head(ss) \o Flatten(Tail(ss))

Map(s, F(_)) == [i \in DOMAIN s |-> F(s[i])]

SetMin(S) == CHOOSE x \in S : \A y \in S : x <= y
SetMax(S) == CHOOSE x \in S : \A y \in S : y <= x

\* pd.read_excel(path, skiprows=n): n rows are skipped, the next row is the
\* header, the rest is data.
ReadExcel(file, skiprows) ==
    LET rest == SubSeq(file, skiprows + 1, Len(file))
    IN  IF rest = <<>> THEN <<>> ELSE Tail(rest)

\* df.drop([0, .., n-1], axis=0): the rows labelled 0..n-1 go.
DropFirst(df, n) == SubSeq(df, n + 1, Len(df))

\* pd.to_datetime(cell, errors='coerce')
ToDatetime(c) == IF c.kind = "datetime" THEN c.v ELSE NaT

\* pd.to_numeric(cell, errors='coerce')
ToNumeric(c) == IF c.kind = "num" THEN c.v ELSE NaNum

SkipRows == 5
DropRows == 5

data1_clean_once(file) ==
    LET df    == ReadExcel(file, SkipRows)
        kept  == SelectSeq(df, LAMBDA r : r.alias # NaN /\ r.time.kind # "nan")
    IN  Map(kept, LAMBDA r : [alias |-> r.alias, ip |-> r.ip, time |-> ToDatetime(r.time)])

data1_clean(file) ==
    LET df    == ReadExcel(file, SkipRows)
        kept  == SelectSeq(df, LAMBDA r : r.alias # NaN /\ r.time.kind # "nan")
        typed == Map(kept, LAMBDA r : [alias |-> r.alias, ip |-> r.ip,
                                       time |-> ToDatetime(r.time)])
    IN  SelectSeq(typed, LAMBDA r : r.time # NaT)

data2_clean(file) ==
    LET df    == DropFirst(ReadExcel(file, 0), DropRows)
        typed == Map(df, LAMBDA r : [ip |-> r.ip, avail |-> ToNumeric(r.avail),
                                     lat |-> ToNumeric(r.lat), loss |-> ToNumeric(r.loss)])
    IN  SelectSeq(typed, LAMBDA r : r.loss # NaNum /\ r.avail # NaNum /\ r.lat # NaNum)

Joined(l, avail) == [alias |-> l.alias, ip |-> l.ip, time |-> l.time, avail |-> avail]

MergeInner(left, right) ==
    Flatten(Map(left, LAMBDA l :
        Map(SelectSeq(right, LAMBDA r : r.ip = l.ip), LAMBDA r : Joined(l, r.avail))))

\* pd.merge(left, right[['IP Address', 'Availability']], on='IP Address', how='left')
MergeLeft(left, right) ==
    Flatten(Map(left, LAMBDA l :
        LET hits == SelectSeq(right, LAMBDA r : r.ip = l.ip)
        IN  IF hits = <<>> THEN <<Joined(l, NaNum)>>
                           ELSE Map(hits, LAMBDA r : Joined(l, r.avail))))

Aliases(df) == {df[i].alias : i \in DOMAIN df}
AlarmTimes(df) == {df[i].time : i \in DOMAIN df}

\* merged_df.groupby('Node Alias')['Alarm Time'].nunique()
NUnique(df) ==
    [a \in Aliases(df) |-> Cardinality({df[i].time : i \in {j \in DOMAIN df : df[j].alias = a}})]

DefaultMinDate == 0 * TicksPerDay
DefaultMaxDate == MaxDay * TicksPerDay
MinDate(df) == IF df = <<>> THEN DefaultMinDate ELSE SetMin(AlarmTimes(df))
MaxDate(df) == IF df = <<>> THEN DefaultMaxDate ELSE SetMax(AlarmTimes(df))

\* Timestamp.date(), as the date picker holds it
DateOf(t) == DateStr(t \div TicksPerDay)


\* ------------------------------------------------------- update_table
\* What pandas makes of a string it compares a datetime column with:
\* Timestamp(s); '' parses to NaT.
ParseDate(d) ==
    CASE d.kind = "date"     -> d.v * TicksPerDay
      [] d.kind = "datetime" -> d.v
      [] OTHER               -> NaT

\* None, or a string that is no date: the comparison raises TypeError.
InvalidComparison(d) == d.kind \in {"none", "junk"}

\* A comparison with NaT is False on every row.
NotBefore(t, d) == ParseDate(d) # NaT /\ t >= ParseDate(d)
NotAfter(t, d)  == ParseDate(d) # NaT /\ t <= ParseDate(d)

DateFilterExclusive(df, start, end) ==
    SelectSeq(df, LAMBDA r : NotBefore(r.time, start) /\ NotAfter(r.time, end)
                             /\ r.time # ParseDate(end))

\* merged_df[(merged_df['Alarm Time'] >= start_date) & (merged_df['Alarm Time'] <= end_date)]
DateFilter(df, start, end) ==
    SelectSeq(df, LAMBDA r : NotBefore(r.time, start) /\ NotAfter(r.time, end))

\* filtered_df['Node Alias'].value_counts()
ValueCounts(df) ==
    [a \in Aliases(df) |-> Cardinality({i \in DOMAIN df : df[i].alias = a})]

\* pd.merge(filtered_df, downtime_count, on='Node Alias')
WithCount(df, cnt) ==
    Map(SelectSeq(df, LAMBDA r : r.alias \in DOMAIN cnt),
        LAMBDA r : [alias |-> r.alias, ip |-> r.ip, time |-> r.time,
                    avail |-> r.avail, count |-> cnt[r.alias]])

BucketRuleOpen(criteria, c) ==
    CASE criteria = "1-3" -> c >= 1 /\ c <= 3
      [] criteria = "4-5" -> c >= 4
      [] criteria = ">5"  -> c > 5
      [] criteria = ">10" -> c > 10
      [] OTHER            -> TRUE

\* The if/elif chain: a value that is none of the four tokens filters nothing.
BucketRule(criteria, c) ==
    CASE criteria = "1-3" -> c >= 1 /\ c <= 3
      [] criteria = "4-5" -> c >= 4 /\ c <= 5
      [] criteria = ">5"  -> c > 5
      [] criteria = ">10" -> c > 10
      [] OTHER            -> TRUE

\* The mean of a group's availability, NaN skipped: the fraction sum/n, and
\* NaN (n = 0) when the group holds no number.
GroupRow(df, a) ==
    LET vals == SelectSeq(Map(SelectSeq(df, LAMBDA r : r.alias = a), LAMBDA r : r.avail),
                          LAMBDA x : x # NaNum)
    IN  [alias |-> a, sum |-> SeqSum(vals), n |-> Len(vals)]

GroupMeanDropNa(df) ==
    SelectSeq(Map(SelectSeq(AliasOrder, LAMBDA a : a \in Aliases(df)),
                  LAMBDA a : GroupRow(df, a)),
              LAMBDA g : g.n > 0)

\* filtered_df.groupby('Node Alias').agg({'Availability': 'mean'}).reset_index()
\* and to_dict('records'): one record per alias, in sorted alias order.
GroupMean(df) ==
    Map(SelectSeq(AliasOrder, LAMBDA a : a \in Aliases(df)), LAMBDA a : GroupRow(df, a))

\* The callback's body.  raised: the exception that leaves it ("" if none).
update_table(df, start, end, criteria) ==
    IF InvalidComparison(start) \/ InvalidComparison(end)
    THEN [raised |-> "TypeError", filtered |-> <<>>, count |-> <<>>, data |-> <<>>]
    ELSE LET filtered == DateFilter(df, start, end)
             count    == ValueCounts(filtered)
             counted  == WithCount(filtered, count)
             chosen   == SelectSeq(counted, LAMBDA r : BucketRule(criteria, r.count))
         IN  [raised |-> "", filtered |-> filtered, count |-> count,
              data |-> GroupMean(chosen)]

GlobalsRebound(mdf, dcount, out) ==
    IF out.raised = "" THEN <<mdf, out.count>> ELSE <<mdf, dcount>>

\* update_table assigns only its own locals (its downtime_count is a local
\* name): the module's merged_df and downtime_count after a call.
GlobalsAfter(mdf, dcount, out) == <<mdf, dcount>>

\* -------------------------------------------------------------- actions
\* line 48
LoadAlarms ==
    /\ pc = "load1"
    /\ df1_cleaned' = data1_clean(file1)
    /\ pc' = "load2"
    /\ UNCHANGED <<file1, file2, df2_cleaned, merged_df, downtime_count, min_date,
                   max_date, start_date, end_date, dropdown, n_clicks, clicks_planned, args,
                   filtered_df, local_count, returned, error>>

\* line 49
LoadMetrics ==
    /\ pc = "load2"
    /\ df2_cleaned' = data2_clean(file2)
    /\ pc' = "merge"
    /\ UNCHANGED <<file1, file2, df1_cleaned, merged_df, downtime_count, min_date,
                   max_date, start_date, end_date, dropdown, n_clicks, clicks_planned, args,
                   filtered_df, local_count, returned, error>>

\* lines 52-70
MergeTables ==
    /\ pc = "merge"
    /\ merged_df' = MergeLeft(df1_cleaned, df2_cleaned)
    /\ downtime_count' = NUnique(merged_df')
    /\ min_date' = MinDate(merged_df')
    /\ max_date' = MaxDate(merged_df')
    /\ pc' = "layout"
    /\ UNCHANGED <<file1, file2, df1_cleaned, df2_cleaned, start_date, end_date,
                   dropdown, n_clicks, clicks_planned, args, filtered_df, local_count,
                   returned, error>>

\* lines 91-225: the values the date picker and the dropdown start with
Layout ==
    /\ pc = "layout"
    /\ start_date' = DateOf(min_date)
    /\ end_date' = DateOf(max_date)
    /\ dropdown' = "1-3"
    /\ pc' = "serve"
    /\ UNCHANGED <<file1, file2, df1_cleaned, df2_cleaned, merged_df, downtime_count,
                   min_date, max_date, n_clicks, clicks_planned, args, filtered_df,
                   local_count, returned, error>>

\* One "Apply Filters" click: the callback runs with the click count and the
\* three State values.
UpdateTable ==
    /\ pc = "serve"
    /\ n_clicks < clicks_planned
    /\ n_clicks' = n_clicks + 1
    /\ \E start \in DateInputs, end \in DateInputs, criteria \in CriteriaInputs :
       \E out \in {update_table(merged_df, start, end, criteria)} :
       \E glb \in {GlobalsAfter(merged_df, downtime_count, out)} :
         /\ args' = [called |-> TRUE, start |-> start, end |-> end, criteria |-> criteria]
         /\ error' = out.raised
         /\ filtered_df' = out.filtered
         /\ local_count' = out.count
         /\ returned' = out.data
         /\ merged_df' = glb[1]
         /\ downtime_count' = glb[2]
    /\ UNCHANGED <<pc, file1, file2, df1_cleaned, df2_cleaned, min_date, max_date,
                   start_date, end_date, dropdown, clicks_planned>>

\* ---------------------------------------------------------- input files
IPOf(alias) == IF alias = "A" THEN "ip1" ELSE "ip2"

NonDecreasing(n, K) ==
    {s \in UNION {[1 .. m -> 0 .. (K - 1)] : m \in 0 .. n} :
        \A i \in 1 .. (Len(s) - 1) : s[i] <= s[i + 1]}

UpTo(n, K) == UNION {[1 .. m -> 0 .. (K - 1)] : m \in 0 .. n}

\* The SkipRows preamble rows and the header row of the alarm sheet.
Preamble1 == [i \in 1 .. (SkipRows + 1) |-> [alias |-> "Host Name", ip |-> "IP", time |-> JunkCell]]
\* The header row and the DropRows rows below it of the metric sheet.
Preamble2 == [i \in 1 .. (DropRows + 1) |-> [ip |-> "IP", avail |-> JunkCell, lat |-> JunkCell, loss |-> JunkCell]]

Num(x) == Cell("num", x)
MetricRow(ip, avail) == [ip |-> ip, avail |-> avail, lat |-> Num(5), loss |-> Num(0)]

\* Well-formed alarm sheets: every node has its own address; one row order
\* per multiset of rows (no operation modelled depends on the row order).
NT == MaxTime + 1
ServeAlarmRow(k) ==
    LET a == AliasOrder[(k \div NT) + 1]
    IN  [alias |-> a, ip |-> IPOf(a), time |-> Cell("datetime", k % NT)]
ServeAlarms ==
    {Map(s, LAMBDA k : ServeAlarmRow(k)) : s \in NonDecreasing(MaxAlarms, Len(AliasOrder) * NT)}
\* Metric sheets that list node A's address 0..MaxMetrics times.
ServeMetrics == {[i \in 1 .. k |-> MetricRow("ip1", Num(99))] : k \in 0 .. MaxMetrics}

\* Alarm sheets with blank and unparseable cells, in any row order.
RawAliases == <<NaN, "A", "B">>
RawTimes == [i \in 1 .. (NT + 2) |->
                IF i = NT + 1 THEN BlankCell ELSE IF i = NT + 2 THEN JunkCell
                ELSE Cell("datetime", i - 1)]
DirtyAlarmRow(k) ==
    LET a == RawAliases[(k \div Len(RawTimes)) + 1]
    IN  [alias |-> a, ip |-> IPOf(a), time |-> RawTimes[(k % Len(RawTimes)) + 1]]
DirtyAlarms ==
    {Map(s, LAMBDA k : DirtyAlarmRow(k)) : s \in UpTo(MaxRawRows, Len(RawAliases) * Len(RawTimes))}
DirtyMetrics ==
    {<<>>} \cup {<<[ip |-> i, avail |-> a, lat |-> l, loss |-> p]>> :
                    i \in {"ip1"}, a \in {JunkCell, BlankCell, Num(98)},
                    l \in {JunkCell, Num(5)}, p \in {JunkCell, Num(0)}}

\* Clean sheets whose addresses match none, one or several metric rows.
JoinIPs == <<"ip1", "ip2", "ip3">>
JoinAlarmRow(k) ==
    [alias |-> AliasOrder[(k % 2) + 1],
     ip    |-> JoinIPs[((k \div 2) % 3) + 1],
     time  |-> Cell("datetime", IF k \div 6 = 0 THEN 0 ELSE MaxTime)]
JoinAlarms == {Map(s, LAMBDA k : JoinAlarmRow(k)) : s \in NonDecreasing(MaxRawRows, 12)}
JoinMetricRow(k) == MetricRow(JoinIPs[(k % 2) + 1], Num(IF k \div 2 = 0 THEN 98 ELSE 100))
JoinMetrics == {Map(s, LAMBDA k : JoinMetricRow(k)) : s \in NonDecreasing(MaxMetrics, 4)}

NoCall == [called |-> FALSE, start |-> NoDate, end |-> NoDate, criteria |-> NoCriteria]

Start(f1, f2, clicks) ==
    /\ pc = "load1"
    /\ file1 = Preamble1 \o f1
    /\ file2 = Preamble2 \o f2
    /\ df1_cleaned = <<>>
    /\ df2_cleaned = <<>>
    /\ merged_df = <<>>
    /\ downtime_count = <<>>
    /\ min_date = NaT
    /\ max_date = NaT
    /\ start_date = NoDate
    /\ end_date = NoDate
    /\ dropdown = NoCriteria
    /\ n_clicks = 0
    /\ clicks_planned = clicks
    /\ args = NoCall
    /\ filtered_df = <<>>
    /\ local_count = <<>>
    /\ returned = <<>>
    /\ error = ""

\* Any well-formed pair of sheets, and one click.
Init == \E f1 \in ServeAlarms, f2 \in ServeMetrics : Start(f1, f2, 1)

\* One alarm per node on the two ends of the range, and several clicks.
ClickAlarms ==
    {<<[alias |-> "A", ip |-> "ip1", time |-> Cell("datetime", t)],
       [alias |-> "B", ip |-> "ip2", time |-> Cell("datetime", MaxTime)]>> : t \in {0, MaxTime}}
InitClicks == \E f1 \in ClickAlarms : Start(f1, <<MetricRow("ip1", Num(99))>>, MaxClicks)

InitLoad ==
    \/ \E f1 \in DirtyAlarms, f2 \in DirtyMetrics : Start(f1, f2, 0)
    \/ \E f1 \in JoinAlarms, f2 \in JoinMetrics : Start(f1, f2, 0)

NextLoad == LoadAlarms \/ LoadMetrics \/ MergeTables \/ Layout

Next == LoadAlarms \/ LoadMetrics \/ MergeTables \/ Layout \/ UpdateTable

\* The whole program: load, then a click.
Spec == Init /\ [][Next]_vars

\* The whole program: load, then a session of several clicks.
SpecClicks == InitClicks /\ [][Next]_vars

\* The load alone, over sheets with dirty cells and over sheets to join.
SpecLoad == InitLoad /\ [][NextLoad]_vars


\* --------------------------------------------------------------- claims
Served == pc = "serve" /\ args.called
ValidDate(d) == d.kind \in {"date", "datetime"}
ValidDates == ValidDate(args.start) /\ ValidDate(args.end)
\* The instant a valid date input names.
Instant(d) == IF d.kind = "date" THEN d.v * TicksPerDay ELSE d.v
InWindow(t) == Instant(args.start) <= t /\ t <= Instant(args.end)
ReturnedAliases == {returned[i].alias : i \in DOMAIN returned}
\* Rows of the merged table for node a whose alarm time is in the window.
WindowRows(a) == {i \in DOMAIN merged_df : merged_df[i].alias = a /\ InWindow(merged_df[i].time)}
Satisfies(b, c) ==
    \/ b = "1-3" /\ 1 <= c /\ c <= 3
    \/ b = "4-5" /\ 4 <= c /\ c <= 5
    \/ b = ">5"  /\ c > 5
    \/ b = ">10" /\ c > 10

\* C1: with a valid date window and one of the four bucket tokens, update_table
\* returns exactly the nodes whose number of merged rows in the window
\* satisfies the bucket, and no other node.
C1_BucketExact ==
    (Served /\ ValidDates /\ args.criteria \in Buckets) =>
        /\ error = ""
        /\ ReturnedAliases =
             {a \in Nodes : Satisfies(args.criteria, Cardinality(WindowRows(a)))}

\* C1 witness: bucket '4-5' returns node A alone while node B, with one to
\* three rows in the window, is left out.
C1_Witness ==
    /\ Served /\ ValidDates /\ args.criteria = "4-5"
    /\ ReturnedAliases = {"A"}
    /\ Cardinality(WindowRows("B")) >= 1

\* C2: a call whose start or end date is absent, empty or no date returns an
\* empty sequence and raises nothing.
C2_InvalidDateEmpty ==
    (Served /\ ~ValidDates) => (error = "" /\ returned = <<>>)

\* C3: a call with a valid window and a criteria value that is none of the
\* four tokens returns an empty sequence.
C3_UnknownTokenEmpty ==
    (Served /\ ValidDates /\ args.criteria \notin Buckets) => (error = "" /\ returned = <<>>)

Same(m, r) == m.alias = r.alias /\ m.ip = r.ip /\ m.time = r.time
Merged == pc \in {"layout", "serve"}

\* C4: every cleaned alarm record is in merged_df with alias and alarm time
\* unchanged, every merged row comes from a cleaned alarm record, and a record
\* whose address no metric row has is there exactly once, availability null.
C4_LeftJoinKeepsAlarms ==
    Merged =>
        /\ \A i \in DOMAIN df1_cleaned : \E j \in DOMAIN merged_df :
              Same(merged_df[j], df1_cleaned[i])
        /\ \A j \in DOMAIN merged_df : \E i \in DOMAIN df1_cleaned :
              Same(merged_df[j], df1_cleaned[i])
        /\ \A i \in DOMAIN df1_cleaned :
              (\A k \in DOMAIN df2_cleaned : df2_cleaned[k].ip # df1_cleaned[i].ip) =>
                 /\ Cardinality({j \in DOMAIN merged_df : Same(merged_df[j], df1_cleaned[i])})
                      = Cardinality({k \in DOMAIN df1_cleaned : df1_cleaned[k] = df1_cleaned[i]})
                 /\ \A j \in DOMAIN merged_df :
                      Same(merged_df[j], df1_cleaned[i]) => merged_df[j].avail = NaNum

\* C4 witness: a merged table with a matched record, fanned out over two
\* metric rows, and an unmatched one.
C4_Witness ==
    /\ Merged
    /\ \E i \in DOMAIN df1_cleaned : \A k \in DOMAIN df2_cleaned : df2_cleaned[k].ip # df1_cleaned[i].ip
    /\ \E i \in DOMAIN df1_cleaned :
          Cardinality({k \in DOMAIN df2_cleaned : df2_cleaned[k].ip = df1_cleaned[i].ip}) >= 2
    /\ df2_cleaned # <<>>

\* C5: called with the start at the earliest and the end at the latest alarm
\* time of merged_df, the date filter keeps every row of merged_df.
C5_FullRangeIdentity ==
    (Served /\ ValidDates /\ merged_df # <<>>
        /\ Instant(args.start) = SetMin(AlarmTimes(merged_df))
        /\ Instant(args.end) = SetMax(AlarmTimes(merged_df)))
    => (error = "" /\ filtered_df = merged_df)

\* C5 witness: such a call over a table whose alarms span two days and end
\* past midnight.
C5_Witness ==
    /\ Served /\ ValidDates /\ Len(merged_df) >= 2
    /\ Instant(args.start) = SetMin(AlarmTimes(merged_df))
    /\ Instant(args.end) = SetMax(AlarmTimes(merged_df))
    /\ Instant(args.end) % TicksPerDay # 0
    /\ Instant(args.start) < Instant(args.end)
    /\ filtered_df = merged_df

\* Rows of the date-filtered frame that the bucket rule keeps.
Remaining ==
    {i \in DOMAIN filtered_df :
        Satisfies(args.criteria,
                  Cardinality({j \in DOMAIN filtered_df : filtered_df[j].alias = filtered_df[i].alias}))}

\* C6: with valid inputs the result holds at most one row per node alias, and
\* one row for every alias among the rows left by the date filter and the
\* bucket rule, nodes without any availability included.
C6_OneRowPerNode ==
    (Served /\ ValidDates /\ args.criteria \in Buckets) =>
        /\ \A i, j \in DOMAIN returned : returned[i].alias = returned[j].alias => i = j
        /\ \A i \in Remaining : filtered_df[i].alias \in ReturnedAliases

\* C6 witness: a result with a row for a node whose availability is null on
\* all its rows, beside a node that has one.
C6_Witness ==
    /\ Served /\ ValidDates /\ args.criteria \in Buckets
    /\ Len(returned) = 2
    /\ \E i \in DOMAIN returned : returned[i].n = 0
    /\ \E i \in DOMAIN returned : returned[i].n > 0

RawAlarmRows == SubSeq(file1, SkipRows + 2, Len(file1))
GoodRaw(r) == r.alias # NaN /\ r.time.kind = "datetime"

\* C8: every row data1_clean returns has a node alias and a valid alarm time;
\* the rows with a missing alias, a missing alarm time or an unparseable one
\* are gone and all others are kept, in order.
C8_CleanAlarms ==
    pc # "load1" =>
        /\ \A i \in DOMAIN df1_cleaned : df1_cleaned[i].alias # NaN /\ df1_cleaned[i].time \in Times
        /\ df1_cleaned = Map(SelectSeq(RawAlarmRows, GoodRaw),
                             LAMBDA r : [alias |-> r.alias, ip |-> r.ip, time |-> r.time.v])

\* C8 witness: a sheet with a kept row and a row whose alarm time is text
\* that is no timestamp.
C8_Witness ==
    /\ pc # "load1"
    /\ Len(df1_cleaned) = 1
    /\ \E i \in DOMAIN RawAlarmRows : RawAlarmRows[i].alias # NaN /\ RawAlarmRows[i].time.kind = "junk"

\* C9: the count update_table holds for a node is the number of cleaned alarm
\* records of that node whose alarm time is in the window.
C9_CountIsAlarmEvents ==
    (Served /\ ValidDates) =>
        \A a \in DOMAIN local_count :
            local_count[a] = Cardinality({i \in DOMAIN df1_cleaned :
                                 df1_cleaned[i].alias = a /\ InWindow(df1_cleaned[i].time)})

\* C10: called with the dates the layout preselects, the date filter keeps
\* every row of merged_df.
C10_DefaultWindowCoversAll ==
    (Served /\ args.start = start_date /\ args.end = end_date) =>
        (error = "" /\ filtered_df = merged_df)

=============================================================================
